---- MODULE Spec2Model ----
(***************************************************************************)
(* Word-hunt solver: the prefix trie (wordhunt/trie.py) and the grid       *)
(* backtracking search (wordhunt/solver.py).                               *)
(*                                                                         *)
(* A Python str is modelled as a sequence of one-character strings, so     *)
(* that iteration over a word (for ch in word), concatenation              *)
(* (current + token) and len() are the sequence operations.                *)
(*                                                                         *)
(* Three specifications share the variables:                               *)
(*   SpecTrie   Trie.insert called any number of times on a fresh Trie;    *)
(*   SpecSolve  solve_grid and solve_grid_with_paths applied, as whole     *)
(*              calls, to a grid, a trie and a configuration;              *)
(*   Spec       one call of solve_grid or solve_grid_with_paths executed   *)
(*              step by step (one step per dfs entry, exit and neighbour   *)
(*              loop iteration), with the call stack explicit.             *)
(***************************************************************************)
EXTENDS Integers, Sequences, FiniteSets, TLC

VARIABLES
    trie,        \* Trie: the nodes, trie[1] is Trie.root
    inserted,    \* history: the words passed to Trie.insert so far
    words,       \* the dictionary handed to the trie builder
    grid,        \* the grid argument (rows of tokens)
    min_len,     \* cfg.min_len
    phase,       \* SpecTrie / SpecSolve: position of the caller
    res,         \* SpecSolve: the values returned by the calls made so far
    pc,          \* Spec: "idle", "run" or "done"
    fn,          \* Spec: "solve_grid" or "solve_grid_with_paths"
    allow_diagonal, \* Spec: cfg.allow_diagonal
    g,           \* Spec: the local g (normalised grid)
    visited,     \* Spec: the local visited, as the set of cells marked True
    stack,       \* Spec: the active dfs calls, outermost first
    path,        \* Spec: the path list shared by the dfs calls of one start cell
    out,         \* Spec: the local out of solve_grid
    paths,       \* Spec: the local paths of solve_grid_with_paths
    start,       \* Spec: number of start cells whose dfs call has been issued
    ret          \* Spec: the value returned by the call

vars == <<trie, inserted, words, grid, min_len, phase, res, pc, fn,
          allow_diagonal, g, visited, stack, path, out, paths, start, ret>>

----------------------------------------------------------------------------
(* Bounds of the model *)

\* Longest word passed to Trie.insert in SpecTrie.
MaxWordLen == 2
\* Number of Trie.insert calls in SpecTrie.
MaxInserts == 3
\* Rows, columns and cells (rows * cols) of a grid.
MaxRows == 2
MaxCols == 3
MaxCells == 4
\* Largest cfg.min_len.
MaxMinLen == 3
\* Largest dictionary handed to the search.
MaxDictSize == 2

Letters == {"a", "b"}

\* Every sequence over S of length at most n.
SeqsUpTo(S, n) == UNION {[1..k -> S] : k \in 0..n}

\* Words passed to Trie.insert in SpecTrie (the empty word included).
TrieWords == SeqsUpTo(Letters, MaxWordLen)

\* Sequences the trie is queried with.
Queries == SeqsUpTo(Letters, MaxWordLen + 1)

----------------------------------------------------------------------------
(* wordhunt/trie.py *)

\* TrieNode(): no children, is_word False.
TrieNode == [children |-> <<>>, is_word |-> FALSE]

\* Trie.__init__: self.root = TrieNode().
NewTrie == <<TrieNode>>

Root == 1

\* node.children.setdefault(ch, TrieNode()): the trie after the call.
SetDefault(t, node, ch) ==
    IF ch \in DOMAIN t[node].children
    THEN t
    ELSE Append([t EXCEPT ![node].children = @ @@ (ch :> (Len(t) + 1))], TrieNode)

\* Mutant of InsertFrom: marks every node on the way as a word.
RECURSIVE InsertFromMarkAll(_, _, _, _)
InsertFromMarkAll(t, node, word, i) ==
    IF i > Len(word)
    THEN [t EXCEPT ![node].is_word = TRUE]
    ELSE LET t2 == SetDefault([t EXCEPT ![node].is_word = TRUE], node, word[i])
         IN  InsertFromMarkAll(t2, t2[node].children[word[i]], word, i + 1)

\* Mutant of InsertFrom: setdefault replaced by an assignment, so an existing
\* child (and the subtree below it) is dropped.
RECURSIVE InsertFromOverwrite(_, _, _, _)
InsertFromOverwrite(t, node, word, i) ==
    IF i > Len(word)
    THEN [t EXCEPT ![node].is_word = TRUE]
    ELSE LET t2 == Append([t EXCEPT ![node].children =
                              [c \in (DOMAIN @) \cup {word[i]} |->
                                  IF c = word[i] THEN Len(t) + 1 ELSE @[c]]],
                          TrieNode)
         IN  InsertFromOverwrite(t2, Len(t) + 1, word, i + 1)

\* The loop of Trie.insert from character i on, then node.is_word = True.
RECURSIVE InsertFrom(_, _, _, _)
InsertFrom(t, node, word, i) ==
    IF i > Len(word)
    THEN [t EXCEPT ![node].is_word = TRUE]
    ELSE LET t2 == SetDefault(t, node, word[i])
         IN  InsertFrom(t2, t2[node].children[word[i]], word, i + 1)

\* Trie.insert(word): the trie after the call.
insert(t, word) == InsertFrom(t, Root, word, 1)

\* The descent shared by has_prefix and has_word: the node reached by
\* consuming s from character i on, or 0 (None) when a child is missing.
RECURSIVE Descend(_, _, _, _)
Descend(t, node, s, i) ==
    IF i > Len(s)
    THEN node
    ELSE IF s[i] \in DOMAIN t[node].children
         THEN Descend(t, t[node].children[s[i]], s, i + 1)
         ELSE 0

\* Mutant of has_prefix: answers as has_word does.
has_prefix_as_word(t, prefix) ==
    LET node == Descend(t, Root, prefix, 1)
    IN  IF node = 0 THEN FALSE ELSE t[node].is_word

\* Trie.has_prefix(prefix).
has_prefix(t, prefix) == Descend(t, Root, prefix, 1) # 0

\* Mutant of has_word: answers as has_prefix does.
has_word_as_prefix(t, word) == Descend(t, Root, word, 1) # 0

\* Trie.has_word(word).
has_word(t, word) ==
    LET node == Descend(t, Root, word, 1)
    IN  IF node = 0 THEN FALSE ELSE t[node].is_word

----------------------------------------------------------------------------
(* wordhunt/solver.py *)

\* str.lower() on one character of the model's alphabet.
LowerChar(ch) == IF ch = "A" THEN "a" ELSE IF ch = "B" THEN "b" ELSE ch

\* str.lower().
lower(s) == [i \in 1..Len(s) |-> LowerChar(s[i])]

IsSpace(ch) == ch = " "

\* str.strip(): leading and trailing whitespace removed.
RECURSIVE strip(_)
strip(s) ==
    IF s = <<>> THEN s
    ELSE IF IsSpace(s[1]) THEN strip(Tail(s))
    ELSE IF IsSpace(s[Len(s)]) THEN strip(SubSeq(s, 1, Len(s) - 1))
    ELSE s

\* g = [[cell.lower().strip() for cell in row] for row in grid]
Normalise(grd) ==
    [r \in 1..Len(grd) |-> [c \in 1..Len(grd[r]) |-> strip(lower(grd[r][c]))]]

\* deltas of _neighbors, in the order the code lists them.
Deltas(diag) ==
    <<(<<-1, 0>>), (<<1, 0>>), (<<0, -1>>), (<<0, 1>>)>> \o
    (IF diag THEN <<(<<-1, -1>>), (<<-1, 1>>), (<<1, -1>>), (<<1, 1>>)>> ELSE <<>>)

\* The cells _neighbors yields for the deltas from index i on, in order.
RECURSIVE NeighborsFrom(_, _, _, _, _, _)
NeighborsFrom(ds, i, r, c, rows, cols) ==
    IF i > Len(ds) THEN <<>>
    ELSE LET nr == r + ds[i][1]
             nc == c + ds[i][2]
         IN  (IF 0 <= nr /\ nr < rows /\ 0 <= nc /\ nc < cols
              THEN <<(<<nr, nc>>)>> ELSE <<>>)
             \o NeighborsFrom(ds, i + 1, r, c, rows, cols)

\* Mutant of _neighbors: the column bound is tested with <=, one past the edge
\* wrapped back to column 0.
NeighborsWrap(r, c, rows, cols, diag) ==
    LET ns == NeighborsFrom(Deltas(diag), 1, r, c, rows, cols + 1)
    IN  [i \in 1..Len(ns) |-> <<ns[i][1], ns[i][2] % cols>>]

\* Mutant of _neighbors: the diagonal deltas are added only when
\* allow_diagonal is false.
NeighborsFlipped(r, c, rows, cols, diag) ==
    NeighborsFrom(Deltas(~diag), 1, r, c, rows, cols)

\* _neighbors(r, c, rows, cols, allow_diagonal), as the sequence it yields.
Neighbors(r, c, rows, cols, diag) ==
    NeighborsFrom(Deltas(diag), 1, r, c, rows, cols)

\* not grid or not grid[0]
EmptyGrid(grd) == grd = <<>> \/ grd[1] = <<>>

\* What a search reads and never writes: g, trie, cfg, rows, cols.
Env(grd, t, ml, diag) ==
    [g |-> Normalise(grd), trie |-> t, min_len |-> ml, allow_diagonal |-> diag,
     rows |-> Len(grd), cols |-> Len(grd[1])]

\* g[r][c] (0-based, as in the code).
Token(e, r, c) == e.g[r + 1][c + 1]

\* Mutant of Accepts: the length test is left out.
AcceptsAnyLength(e, next_word) == has_word(e.trie, next_word)

\* len(next_word) >= cfg.min_len and trie.has_word(next_word)
Accepts(e, next_word) ==
    Len(next_word) >= e.min_len /\ has_word(e.trie, next_word)

\* ---- solve_grid ----
\* The state dfs mutates is st = [visited, out]; dfs returns it.
RECURSIVE dfs(_, _, _, _, _)
RECURSIVE dfsLoop(_, _, _, _, _)

\* for nr, nc in _neighbors(...): if not visited[nr][nc]: dfs(nr, nc, next_word)
dfsLoop(e, st, ns, i, next_word) ==
    IF i > Len(ns) THEN st
    ELSE dfsLoop(e,
                 IF ns[i] \notin st.visited
                 THEN dfs(e, st, ns[i][1], ns[i][2], next_word)
                 ELSE st,
                 ns, i + 1, next_word)

\* dfs(r, c, current) of solve_grid.
dfs(e, st, r, c, current) ==
    LET st1 == [st EXCEPT !.visited = @ \cup {<<r, c>>}]
        next_word == current \o Token(e, r, c)
    IN  IF ~has_prefix(e.trie, next_word)
        THEN [st1 EXCEPT !.visited = @ \ {<<r, c>>}]
        ELSE LET st2 == IF Accepts(e, next_word)
                        THEN [st1 EXCEPT !.out = @ \cup {next_word}]
                        ELSE st1
                 st3 == dfsLoop(e, st2, Neighbors(r, c, e.rows, e.cols, e.allow_diagonal),
                                1, next_word)
             IN  [st3 EXCEPT !.visited = @ \ {<<r, c>>}]

\* for r in range(rows): for c in range(cols): dfs(r, c, ""), from start cell k on.
RECURSIVE SolveFrom(_, _, _)
SolveFrom(e, st, k) ==
    IF k >= e.rows * e.cols THEN st
    ELSE SolveFrom(e, dfs(e, st, k \div e.cols, k % e.cols, <<>>), k + 1)

\* solve_grid(grid, trie, cfg): the set returned.
solve_grid(grd, t, ml, diag) ==
    IF EmptyGrid(grd) THEN {}
    ELSE SolveFrom(Env(grd, t, ml, diag), [visited |-> {}, out |-> {}], 0).out

\* ---- solve_grid_with_paths ----
\* paths is a function from word to path.
\* path.pop()
Pop(p) == SubSeq(p, 1, Len(p) - 1)

\* Mutant of Record: a later discovery replaces the stored path.
RecordLast(ps, next_word, p) ==
    [w \in (DOMAIN ps) \cup {next_word} |-> IF w = next_word THEN p ELSE ps[w]]

\* if next_word not in paths: paths[next_word] = path.copy()
Record(ps, next_word, p) ==
    IF next_word \in DOMAIN ps THEN ps
    ELSE [w \in (DOMAIN ps) \cup {next_word} |-> IF w = next_word THEN p ELSE ps[w]]

\* The state dfs mutates is st = [visited, path, paths]; dfs returns it.
RECURSIVE pdfs(_, _, _, _, _)
RECURSIVE pdfsLoop(_, _, _, _, _)

\* for nr, nc in _neighbors(...): if not visited[nr][nc]: dfs(nr, nc, next_word, path)
pdfsLoop(e, st, ns, i, next_word) ==
    IF i > Len(ns) THEN st
    ELSE pdfsLoop(e,
                  IF ns[i] \notin st.visited
                  THEN pdfs(e, st, ns[i][1], ns[i][2], next_word)
                  ELSE st,
                  ns, i + 1, next_word)

\* Mutant of pdfs: the prune exit pops the path but leaves the cell marked.
pdfsPruneKeepsMark(e, st, r, c, current) ==
    LET st1 == [st EXCEPT !.visited = @ \cup {<<r, c>>},
                          !.path = Append(@, <<r, c>>)]
        next_word == current \o Token(e, r, c)
    IN  IF ~has_prefix(e.trie, next_word)
        THEN [st1 EXCEPT !.path = Pop(@)]
        ELSE LET st2 == IF Accepts(e, next_word)
                        THEN [st1 EXCEPT !.paths = Record(@, next_word, st1.path)]
                        ELSE st1
                 st3 == pdfsLoop(e, st2, Neighbors(r, c, e.rows, e.cols, e.allow_diagonal),
                                 1, next_word)
             IN  [st3 EXCEPT !.path = Pop(@), !.visited = @ \ {<<r, c>>}]

\* dfs(r, c, current, path) of solve_grid_with_paths.
pdfs(e, st, r, c, current) ==
    LET st1 == [st EXCEPT !.visited = @ \cup {<<r, c>>},
                          !.path = Append(@, <<r, c>>)]
        next_word == current \o Token(e, r, c)
    IN  IF ~has_prefix(e.trie, next_word)
        THEN [st1 EXCEPT !.path = Pop(@), !.visited = @ \ {<<r, c>>}]
        ELSE LET st2 == IF Accepts(e, next_word)
                        THEN [st1 EXCEPT !.paths = Record(@, next_word, st1.path)]
                        ELSE st1
                 st3 == pdfsLoop(e, st2, Neighbors(r, c, e.rows, e.cols, e.allow_diagonal),
                                 1, next_word)
             IN  [st3 EXCEPT !.path = Pop(@), !.visited = @ \ {<<r, c>>}]

\* for r in range(rows): for c in range(cols): dfs(r, c, "", []), from start cell k on.
RECURSIVE SolvePathsFrom(_, _, _)
SolvePathsFrom(e, st, k) ==
    IF k >= e.rows * e.cols THEN st
    ELSE SolvePathsFrom(e,
                        pdfs(e, [st EXCEPT !.path = <<>>], k \div e.cols, k % e.cols, <<>>),
                        k + 1)

\* solve_grid_with_paths(grid, trie, cfg): the mapping returned.
solve_grid_with_paths(grd, t, ml, diag) ==
    IF EmptyGrid(grd) THEN <<>>
    ELSE SolvePathsFrom(Env(grd, t, ml, diag),
                        [visited |-> {}, path |-> <<>>, paths |-> <<>>], 0).paths

----------------------------------------------------------------------------
(* Inputs *)

\* Grid tokens: one letter, one upper-case letter, two letters.
Tokens == {<<"a">>, <<"B">>, <<"a", "b">>}

Shapes == {s \in (1..MaxRows) \X (1..MaxCols) : s[1] * s[2] <= MaxCells}

\* The rectangular grids of these shapes, with [] and [[]].
Grids ==
    {<<>>, <<(<<>>)>>} \cup UNION {[1..s[1] -> [1..s[2] -> Tokens]] : s \in Shapes}

\* Dictionary words handed to the search.
Lexicon ==
    {<<"a">>, <<"a", "b">>, <<"b", "a">>, <<"a", "a", "b">>, <<"a", "b", "a">>,
     <<"a", "b", "a", "b">>}

Dicts == {d \in SUBSET Lexicon : Cardinality(d) <= MaxDictSize}

MinLens == 1..MaxMinLen

\* A set of words as a list, in some fixed order.
RECURSIVE SetToSeq(_)
SetToSeq(S) ==
    IF S = {} THEN <<>>
    ELSE LET x == CHOOSE y \in S : TRUE IN <<x>> \o SetToSeq(S \ {x})

\* trie = Trie(); for w in words: trie.insert(w), from word i on.
RECURSIVE InsertAll(_, _, _)
InsertAll(t, ws, i) ==
    IF i > Len(ws) THEN t ELSE InsertAll(insert(t, ws[i]), ws, i + 1)

\* Values of the variables a specification does not use.
IdleSearch ==
    /\ pc = "idle" /\ fn = "none" /\ allow_diagonal = FALSE /\ g = <<>>
    /\ visited = {} /\ stack = <<>> /\ path = <<>> /\ out = {} /\ paths = <<>>
    /\ start = 0 /\ ret = <<>>

SearchVars == <<pc, fn, allow_diagonal, g, visited, stack, path, out, paths, start, ret>>

----------------------------------------------------------------------------
(* SpecTrie: Trie.insert called on a fresh Trie *)

InitTrie ==
    /\ trie = NewTrie
    /\ inserted = <<>>
    /\ words = {} /\ grid = <<>> /\ min_len = 0 /\ phase = "trie" /\ res = <<>>
    /\ IdleSearch

\* trie.insert(w)
Insert(w) ==
    /\ phase = "trie"
    /\ Len(inserted) < MaxInserts
    /\ trie' = insert(trie, w)
    /\ inserted' = Append(inserted, w)
    /\ UNCHANGED <<words, grid, min_len, phase, res, SearchVars>>

NextTrie == \E w \in TrieWords : Insert(w)

SpecTrie == InitTrie /\ [][NextTrie]_vars

----------------------------------------------------------------------------
(* SpecSolve: the two searches as whole calls on the same grid, trie, min_len *)

\* The calls made, in order: the function and cfg.allow_diagonal.
Script ==
    <<[f |-> "solve_grid", diag |-> FALSE], [f |-> "solve_grid", diag |-> TRUE],
      [f |-> "solve_grid_with_paths", diag |-> FALSE],
      [f |-> "solve_grid_with_paths", diag |-> TRUE]>>

InitSolve ==
    /\ trie = NewTrie
    /\ inserted = <<>>
    /\ words \in Dicts
    /\ grid \in Grids
    /\ min_len \in MinLens
    /\ phase = "build"
    /\ res = <<>>
    /\ IdleSearch

\* main: trie = Trie(); for w in words: trie.insert(w)
BuildTrie ==
    /\ phase = "build"
    /\ inserted' = SetToSeq(words)
    /\ trie' = InsertAll(trie, inserted', 1)
    /\ phase' = "call"
    /\ UNCHANGED <<words, grid, min_len, res, SearchVars>>

\* solve_grid(grid, trie, SolveConfig(min_len, diag))
CallSolveGrid ==
    /\ phase = "call"
    /\ Len(res) < Len(Script)
    /\ Script[Len(res) + 1].f = "solve_grid"
    /\ res' = Append(res, solve_grid(grid, trie, min_len, Script[Len(res) + 1].diag))
    /\ UNCHANGED <<trie, inserted, words, grid, min_len, phase, SearchVars>>

\* solve_grid_with_paths(grid, trie, SolveConfig(min_len, diag))
CallSolveGridWithPaths ==
    /\ phase = "call"
    /\ Len(res) < Len(Script)
    /\ Script[Len(res) + 1].f = "solve_grid_with_paths"
    /\ res' = Append(res, solve_grid_with_paths(grid, trie, min_len,
                                                Script[Len(res) + 1].diag))
    /\ UNCHANGED <<trie, inserted, words, grid, min_len, phase, SearchVars>>

NextSolve == BuildTrie \/ CallSolveGrid \/ CallSolveGridWithPaths

SpecSolve == InitSolve /\ [][NextSolve]_vars

----------------------------------------------------------------------------
(* Spec: one call of solve_grid or solve_grid_with_paths, step by step.      *)
(* A step is a dfs entry, the prefix test with its exit or the word test,    *)
(* one iteration of the neighbour loop, or a dfs exit. A frame of the stack  *)
(* is one active dfs call: its cell, its next_word, where it stands (at),    *)
(* the index i of the neighbour the loop tries next, and, as history, the    *)
(* visited marker and the path buffer as they were when it was entered.      *)

Functions == {"solve_grid", "solve_grid_with_paths"}

\* The dictionaries of the step-by-step search: the whole lexicon, and two
\* small ones.
StepDicts ==
    {Lexicon,
     {<<"a", "b", "a">>, <<"b", "a">>},
     {<<"a">>, <<"a", "a", "b">>}}

Init ==
    /\ words \in StepDicts
    /\ inserted = SetToSeq(words)
    /\ trie = InsertAll(NewTrie, inserted, 1)
    /\ grid \in Grids
    /\ min_len \in MinLens
    /\ phase = "search" /\ res = <<>>
    /\ IdleSearch

Inputs == <<trie, inserted, words, grid, min_len, phase, res>>

\* The read-only part of the running search.
RunEnv ==
    [g |-> g, trie |-> trie, min_len |-> min_len, allow_diagonal |-> allow_diagonal,
     rows |-> Len(grid), cols |-> Len(grid[1])]

Top == stack[Len(stack)]

\* The frame of dfs(r, c, current[, buf]) once its entry statements have run;
\* buf is the path list it was handed.
Frame(r, c, current, buf) ==
    [r |-> r, c |-> c, next_word |-> current \o Token(RunEnv, r, c),
     at |-> "check", i |-> 1, visited0 |-> visited, path0 |-> buf]

\* _neighbors(r, c, rows, cols, cfg.allow_diagonal) of the top frame.
TopNeighbors == Neighbors(Top.r, Top.c, Len(grid), Len(grid[1]), allow_diagonal)

\* solve_grid(grid, trie, cfg) or solve_grid_with_paths(grid, trie, cfg) is
\* called: the empty-grid return, or the locals are set up.
Call(f, diag) ==
    /\ pc = "idle"
    /\ fn' = f
    /\ allow_diagonal' = diag
    /\ IF EmptyGrid(grid)
       THEN /\ pc' = "done"
            /\ ret' = IF f = "solve_grid" THEN {} ELSE <<>>
            /\ UNCHANGED <<g, visited, stack, path, out, paths, start>>
       ELSE /\ pc' = "run"
            /\ g' = Normalise(grid)
            /\ visited' = {}
            /\ out' = {}
            /\ paths' = <<>>
            /\ UNCHANGED <<stack, path, start, ret>>
    /\ UNCHANGED Inputs

\* The entry of dfs(r, c, current[, buf]), called with the callers in callers:
\* visited[r][c] = True, next_word, and in path mode path.append((r, c)).
EnterDfs(callers, r, c, current, buf) ==
    /\ visited' = visited \cup {<<r, c>>}
    /\ path' = IF fn = "solve_grid_with_paths" THEN Append(buf, <<r, c>>) ELSE path
    /\ stack' = Append(callers, Frame(r, c, current, buf))

\* for r in range(rows): for c in range(cols): dfs(r, c, "", [])
StartCell ==
    /\ pc = "run"
    /\ stack = <<>>
    /\ start < Len(grid) * Len(grid[1])
    /\ EnterDfs(stack, start \div Len(grid[1]), start % Len(grid[1]), <<>>, <<>>)
    /\ start' = start + 1
    /\ UNCHANGED <<pc, fn, allow_diagonal, g, out, paths, ret, Inputs>>

\* Mutant of Prune: the prune exit returns without visited[r][c] = False.
PruneNoUnmark ==
    /\ pc = "run"
    /\ stack # <<>>
    /\ Top.at = "check"
    /\ ~has_prefix(trie, Top.next_word)
    /\ path' = IF fn = "solve_grid_with_paths" THEN Pop(path) ELSE path
    /\ stack' = Pop(stack)
    /\ UNCHANGED <<visited, pc, fn, allow_diagonal, g, out, paths, start, ret, Inputs>>

\* if not trie.has_prefix(next_word): [path.pop();] visited[r][c] = False; return
Prune ==
    /\ pc = "run"
    /\ stack # <<>>
    /\ Top.at = "check"
    /\ ~has_prefix(trie, Top.next_word)
    /\ path' = IF fn = "solve_grid_with_paths" THEN Pop(path) ELSE path
    /\ visited' = visited \ {<<Top.r, Top.c>>}
    /\ stack' = Pop(stack)
    /\ UNCHANGED <<pc, fn, allow_diagonal, g, out, paths, start, ret, Inputs>>

\* The prefix test passes; the word is recorded when it is long enough and a
\* dictionary word; the neighbour loop starts.
Visit ==
    /\ pc = "run"
    /\ stack # <<>>
    /\ Top.at = "check"
    /\ has_prefix(trie, Top.next_word)
    /\ IF Accepts(RunEnv, Top.next_word)
       THEN IF fn = "solve_grid"
            THEN out' = out \cup {Top.next_word} /\ paths' = paths
            ELSE paths' = Record(paths, Top.next_word, path) /\ out' = out
       ELSE UNCHANGED <<out, paths>>
    /\ stack' = [stack EXCEPT ![Len(stack)].at = "loop"]
    /\ UNCHANGED <<visited, path, pc, fn, allow_diagonal, g, start, ret, Inputs>>

\* A loop iteration whose neighbour is not visited: dfs(nr, nc, next_word[, path]).
LoopCall ==
    /\ pc = "run"
    /\ stack # <<>>
    /\ Top.at = "loop"
    /\ Top.i <= Len(TopNeighbors)
    /\ TopNeighbors[Top.i] \notin visited
    /\ EnterDfs([stack EXCEPT ![Len(stack)].i = @ + 1],
                TopNeighbors[Top.i][1], TopNeighbors[Top.i][2], Top.next_word, path)
    /\ UNCHANGED <<pc, fn, allow_diagonal, g, out, paths, start, ret, Inputs>>

\* A loop iteration whose neighbour is on the active path: nothing is called.
LoopSkip ==
    /\ pc = "run"
    /\ stack # <<>>
    /\ Top.at = "loop"
    /\ Top.i <= Len(TopNeighbors)
    /\ TopNeighbors[Top.i] \in visited
    /\ stack' = [stack EXCEPT ![Len(stack)].i = @ + 1]
    /\ UNCHANGED <<visited, path, pc, fn, allow_diagonal, g, out, paths, start, ret, Inputs>>

\* The loop is over: [path.pop();] visited[r][c] = False, and dfs returns.
Return ==
    /\ pc = "run"
    /\ stack # <<>>
    /\ Top.at = "loop"
    /\ Top.i > Len(TopNeighbors)
    /\ path' = IF fn = "solve_grid_with_paths" THEN Pop(path) ELSE path
    /\ visited' = visited \ {<<Top.r, Top.c>>}
    /\ stack' = Pop(stack)
    /\ UNCHANGED <<pc, fn, allow_diagonal, g, out, paths, start, ret, Inputs>>

\* Every start cell is done: return out / return paths.
Finish ==
    /\ pc = "run"
    /\ stack = <<>>
    /\ start = Len(grid) * Len(grid[1])
    /\ pc' = "done"
    /\ ret' = IF fn = "solve_grid" THEN out ELSE paths
    /\ UNCHANGED <<fn, allow_diagonal, g, visited, stack, path, out, paths, start, Inputs>>

Next ==
    \/ \E f \in Functions, diag \in BOOLEAN : Call(f, diag)
    \/ StartCell
    \/ Prune
    \/ Visit
    \/ LoopCall
    \/ LoopSkip
    \/ Return
    \/ Finish

Spec == Init /\ [][Next]_vars

----------------------------------------------------------------------------
(* Reference notions the claims are stated with; none of them is used by the *)
(* model of the code above.                                                  *)

Range(f) == {f[i] : i \in DOMAIN f}

IsPrefixOf(s, w) == Len(s) <= Len(w) /\ SubSeq(w, 1, Len(s)) = s

NumRows(grd) == Len(grd)
NumCols(grd) == IF grd = <<>> THEN 0 ELSE Len(grd[1])

\* The cells of a grid, 0-based.
CellsOf(grd) == (0..NumRows(grd) - 1) \X (0..NumCols(grd) - 1)

Abs(x) == IF x < 0 THEN -x ELSE x

\* Two distinct cells one step apart: orthogonally, or diagonally when allowed.
Adjacent(p, q, diag) ==
    /\ p # q
    /\ Abs(p[1] - q[1]) <= 1
    /\ Abs(p[2] - q[2]) <= 1
    /\ (diag \/ p[1] = q[1] \/ p[2] = q[2])

\* A non-empty sequence of cells of the grid, no cell twice, consecutive cells
\* adjacent.
IsSimplePath(p, grd, diag) ==
    /\ Len(p) >= 1
    /\ \A i \in 1..Len(p) : p[i] \in CellsOf(grd)
    /\ \A i, j \in 1..Len(p) : i # j => p[i] # p[j]
    /\ \A i \in 1..Len(p) - 1 : Adjacent(p[i], p[i + 1], diag)

\* The simple paths that extend the paths of P by up to n more cells.
RECURSIVE Extensions(_, _, _, _)
Extensions(P, grd, diag, n) ==
    IF n = 0 \/ P = {} THEN P
    ELSE P \cup Extensions({Append(p, q) : <<p, q>> \in
                               {x \in P \X CellsOf(grd) :
                                   /\ x[2] \notin Range(x[1])
                                   /\ Adjacent(x[1][Len(x[1])], x[2], diag)}},
                           grd, diag, n - 1)

\* Every simple path of the grid.
SimplePaths(grd, diag) ==
    Extensions({<<q>> : q \in CellsOf(grd)}, grd, diag,
               NumRows(grd) * NumCols(grd))

\* A token as the search compares it: lower-cased (the tokens of the model
\* carry no surrounding whitespace).
FoldChar(ch) == CASE ch = "A" -> "a" [] ch = "B" -> "b" [] OTHER -> ch
Folded(tok) == [i \in 1..Len(tok) |-> FoldChar(tok[i])]

\* The lower-cased tokens along a path, concatenated.
RECURSIVE Spell(_, _)
Spell(grd, p) ==
    IF p = <<>> THEN <<>>
    ELSE Folded(grd[p[1][1] + 1][p[1][2] + 1]) \o Spell(grd, Tail(p))

\* The words some simple path of the grid spells.
Traceable(grd, diag) == {Spell(grd, p) : p \in SimplePaths(grd, diag)}

\* Number of characters of all (lower-cased) tokens of the grid.
TotalChars(grd) ==
    LET cs == CellsOf(grd)
        RECURSIVE Sum(_)
        Sum(S) == IF S = {} THEN 0
                  ELSE LET x == CHOOSE y \in S : TRUE
                       IN  Len(Folded(grd[x[1] + 1][x[2] + 1])) + Sum(S \ {x})
    IN  Sum(cs)

\* The indices of the calls of f made so far in SpecSolve.
Made(f) == {i \in 1..Len(res) : Script[i].f = f}

\* The words call i returned: the set, or the keys of the mapping.
WordsOf(i) == IF Script[i].f = "solve_grid" THEN res[i] ELSE DOMAIN res[i]

----------------------------------------------------------------------------
(* Claims about the trie, under SpecTrie *)

\* C5 (as stated): after any sequence of zero or more insert calls,
\* has_prefix(s) is true exactly when s is a prefix of at least one inserted
\* word, for every s, the empty sequence included.
C5_HasPrefixIffPrefixOfInserted ==
    \A s \in Queries :
        has_prefix(trie, s) <=> \E w \in Range(inserted) : IsPrefixOf(s, w)

\* C5 (amended): has_prefix(s) is true exactly when s is empty or s is a
\* prefix of at least one inserted word; on a trie with no insertion the empty
\* sequence is still answered true.
C5_HasPrefixIffEmptyOrPrefix ==
    \A s \in Queries :
        has_prefix(trie, s) <=>
            (s = <<>> \/ \E w \in Range(inserted) : IsPrefixOf(s, w))

\* Words were inserted, a non-empty proper prefix of one is answered true and a
\* sequence that is a prefix of none is answered false.
C5_Witness ==
    /\ \E w \in Range(inserted) : \E s \in Queries :
          s # <<>> /\ s # w /\ IsPrefixOf(s, w) /\ has_prefix(trie, s)
    /\ \E s \in Queries :
          ~has_prefix(trie, s) /\ \A w \in Range(inserted) : ~IsPrefixOf(s, w)

\* C6: after any sequence of insert calls, has_word(s) is true exactly when s
\* is one of the inserted words (so false for a prefix that was not itself
\* inserted and for a descent that meets a missing child); the answer is a
\* function of the set of inserted words, whatever their order and number of
\* repetitions.
C6_HasWordIffInserted ==
    \A s \in Queries : has_word(trie, s) <=> s \in Range(inserted)

\* A word was inserted twice, another word has a non-empty proper prefix that
\* was never inserted (answered false), and some query meets a missing child.
C6_Witness ==
    /\ Len(inserted) > Cardinality(Range(inserted))
    /\ \E w \in Range(inserted) : \E s \in Queries :
          /\ s # <<>> /\ s # w /\ IsPrefixOf(s, w) /\ s \notin Range(inserted)
          /\ has_word(trie, w) /\ ~has_word(trie, s)
    /\ \E s \in Queries : Descend(trie, Root, s, 1) = 0

----------------------------------------------------------------------------
(* Claims about the results of the searches, under SpecSolve *)

\* C1: completeness of solve_grid. Every dictionary word of length at least
\* min_len that the tokens along some simple path of the grid spell is in the
\* returned set. Tokens are read lower-cased, as the search compares them; on
\* a grid of lower-case tokens these are the tokens themselves.
C1_Complete ==
    \A i \in Made("solve_grid") :
        LET traced == Traceable(grid, Script[i].diag)
        IN  \A w \in words : (Len(w) >= min_len /\ w \in traced) => w \in res[i]

\* A call returned a word spelled by a path of at least three cells while the
\* dictionary holds a word that no path spells.
C1_Witness ==
    \E i \in Made("solve_grid") :
        /\ \E w \in res[i] : Len(w) >= 3
        /\ \E w \in words : Len(w) >= min_len /\ w \notin Traceable(grid, Script[i].diag)

\* C2: soundness of solve_grid. Every returned word was inserted into the trie
\* as a complete word, has length at least min_len, and is spelled by the
\* (lower-cased) tokens along some simple path under the configured adjacency.
C2_Sound ==
    \A i \in Made("solve_grid") :
        LET traced == Traceable(grid, Script[i].diag)
        IN  \A w \in res[i] : w \in words /\ Len(w) >= min_len /\ w \in traced

\* A call returned a word and left out a dictionary word that a path spells
\* but is shorter than min_len.
C2_Witness ==
    \E i \in Made("solve_grid") :
        /\ res[i] # {}
        /\ \E w \in words \ res[i] :
              w \in Traceable(grid, Script[i].diag) /\ Len(w) < min_len

\* The parts of C3 that hold of every path: the coordinates are cells of the
\* grid, consecutive ones are adjacent under the configured rule, none occurs
\* twice, and the lower-cased tokens along the path spell the word.
PathValid(w, p, diag) == IsSimplePath(p, grid, diag) /\ Spell(grid, p) = w

\* C3 (as stated): for every grid of tokens of one or more characters, each
\* entry word -> path has as many coordinates as the word has characters, and
\* the path is a simple path whose tokens spell the word.
C3_PathLengthIsWordLength ==
    \A i \in Made("solve_grid_with_paths") :
        \A w \in DOMAIN res[i] :
            PathValid(w, res[i][w], Script[i].diag) /\ Len(res[i][w]) = Len(w)

\* C3 (amended): each entry word -> path is a simple path of the grid whose
\* lower-cased tokens spell the word; the path has one coordinate per token,
\* so at most as many coordinates as the word has characters, and exactly as
\* many when every token on the path is a single character.
C3_PathValid ==
    \A i \in Made("solve_grid_with_paths") :
        \A w \in DOMAIN res[i] :
            LET p == res[i][w]
            IN  /\ PathValid(w, p, Script[i].diag)
                /\ Len(p) <= Len(w)
                /\ (\A k \in 1..Len(p) : Len(Folded(grid[p[k][1] + 1][p[k][2] + 1])) = 1)
                       => Len(p) = Len(w)

\* A returned path of three cells over single-character tokens, one of them
\* upper-case in the grid, and a returned path that crosses a two-character
\* token.
C3_Witness ==
    \E i \in Made("solve_grid_with_paths") :
        /\ \E w \in DOMAIN res[i] :
              /\ Len(res[i][w]) = 3 /\ Len(w) = 3
              /\ \E k \in 1..3 : grid[res[i][w][k][1] + 1][res[i][w][k][2] + 1] = <<"B">>
        /\ \E w \in DOMAIN res[i] : Len(res[i][w]) < Len(w)

\* C4: for the same grid, trie and configuration, the keys of the mapping
\* solve_grid_with_paths returns are the set solve_grid returns.
C4_SameWords ==
    \A i \in Made("solve_grid") : \A j \in Made("solve_grid_with_paths") :
        Script[i].diag = Script[j].diag => res[i] = DOMAIN res[j]

\* Both functions were called with the same configuration and returned two or
\* more words.
C4_Witness ==
    \E i \in Made("solve_grid") : \E j \in Made("solve_grid_with_paths") :
        /\ Script[i].diag = Script[j].diag
        /\ Cardinality(res[i]) >= 2
        /\ Cardinality(DOMAIN res[j]) >= 2

\* C7: the set solve_grid returns with allow_diagonal false is a subset of the
\* set it returns with allow_diagonal true, for the same grid, trie, min_len.
C7_DiagonalMonotone ==
    \A i, j \in Made("solve_grid") :
        (~Script[i].diag /\ Script[j].diag) => res[i] \subseteq res[j]

\* Both calls were made; the orthogonal-only call found a word and the
\* diagonal call found more.
C7_Witness ==
    \E i, j \in Made("solve_grid") :
        /\ ~Script[i].diag /\ Script[j].diag
        /\ res[i] # {}
        /\ res[i] # res[j]

\* C8 (as stated): when min_len > rows * cols, solve_grid returns the empty
\* set and solve_grid_with_paths the empty mapping, for every grid of tokens
\* of one or more characters.
C8_EmptyAboveCellCount ==
    min_len > NumRows(grid) * NumCols(grid) =>
        /\ \A i \in Made("solve_grid") : res[i] = {}
        /\ \A i \in Made("solve_grid_with_paths") : DOMAIN res[i] = {}

\* C8 (amended): when min_len is greater than the number of characters of all
\* the grid's tokens together (which is rows * cols when every token is a
\* single character), both functions return an empty result.
C8_EmptyAboveCharCount ==
    min_len > TotalChars(grid) =>
        /\ \A i \in Made("solve_grid") : res[i] = {}
        /\ \A i \in Made("solve_grid_with_paths") : DOMAIN res[i] = {}

\* All four calls returned empty on a non-empty grid whose characters are
\* fewer than min_len, although a dictionary word is spelled by a path.
C8_Witness ==
    /\ ~EmptyGrid(grid)
    /\ min_len > TotalChars(grid)
    /\ Len(res) = Len(Script)
    /\ \A i \in 1..Len(res) : WordsOf(i) = {}
    /\ \E w \in words : w \in Traceable(grid, FALSE)

----------------------------------------------------------------------------
(* Claims about the traversal, under Spec *)

\* The cells of the active dfs calls, outermost first.
ActivePath == [k \in 1..Len(stack) |-> <<stack[k].r, stack[k].c>>]

\* C9, at every point: the cells marked visited are exactly the cells of the
\* active dfs calls, no cell is on the active path twice, and in path mode the
\* path buffer is the active path in order; so nothing is marked when no dfs
\* call is active, which is when the next start cell begins (and when the
\* search returns).
VisitedIsActivePath ==
    pc \in {"run", "done"} /\ ~EmptyGrid(grid) =>
        /\ visited = Range(ActivePath)
        /\ Cardinality(visited) = Len(stack)
        /\ (fn = "solve_grid_with_paths" /\ stack # <<>> => path = ActivePath)
        /\ (stack = <<>> => visited = {})

\* C9, every exit: a step that ends a dfs call, by the prefix-prune exit or by
\* the normal exit, leaves the visited marker and the path buffer as they were
\* when that call was entered.
ExitRestores ==
    (pc = "run" /\ Len(stack') < Len(stack)) =>
        /\ visited' = Top.visited0
        /\ (fn = "solve_grid_with_paths" => path' = Top.path0)

\* C9: visited-marker invariant of the backtracking search, in solve_grid and
\* in solve_grid_with_paths: the marker is the active path at every point, and
\* every dfs exit restores it (and the path buffer).
C9_VisitedMarker == []VisitedIsActivePath /\ [][ExitRestores]_vars

\* In path mode, after an earlier start cell's traversal is over, a dfs call
\* three deep is about to leave through the prune exit.
C9_Witness ==
    /\ pc = "run"
    /\ fn = "solve_grid_with_paths"
    /\ start >= 2
    /\ Len(stack) >= 3
    /\ Top.at = "check"
    /\ ~has_prefix(trie, Top.next_word)

\* Rank of a step in the order up, down, left, right, up-left, up-right,
\* down-left, down-right.
StepRank(from, to) ==
    LET d == <<to[1] - from[1], to[2] - from[2]>>
    IN  CASE d = <<-1, 0>> -> 1 [] d = <<1, 0>> -> 2
          [] d = <<0, -1>> -> 3 [] d = <<0, 1>> -> 4
          [] d = <<-1, -1>> -> 5 [] d = <<-1, 1>> -> 6
          [] d = <<1, -1>> -> 7 [] d = <<1, 1>> -> 8

\* First index at which two paths differ (neither is a prefix of the other).
FirstDiff(p, q) == CHOOSE k \in 1..Len(p) : k > Len(q) \/ p[k] # q[k]

\* p is reached before q by the traversal: at the first cell where they
\* differ, p's start cell is earlier in row-major order, or p's step is
\* earlier in the neighbour order.
ReachedBefore(p, q) ==
    LET k == FirstDiff(p, q)
    IN  IF k = 1
        THEN p[1][1] * NumCols(grid) + p[1][2] < q[1][1] * NumCols(grid) + q[1][2]
        ELSE StepRank(p[k - 1], p[k]) < StepRank(q[k - 1], q[k])

\* C10, the returned mapping: each word's path is the first one, in traversal
\* order, among the simple paths that spell the word.
FirstPathReturned ==
    (pc = "done" /\ fn = "solve_grid_with_paths") =>
        LET all == SimplePaths(grid, allow_diagonal)
        IN  \A w \in DOMAIN ret : \A q \in all :
                (Spell(grid, q) = w /\ q # ret[w]) => ReachedBefore(ret[w], q)

\* C10, every step: a path recorded for a word stays recorded, unchanged, to
\* the end of the search and is the path returned.
RecordedPathKept ==
    pc = "run" =>
        /\ \A w \in DOMAIN paths : w \in DOMAIN paths' /\ paths'[w] = paths[w]
        /\ (pc' = "done" /\ fn = "solve_grid_with_paths" => ret' = paths)

\* C10: solve_grid_with_paths keeps the first path discovered for each word
\* (never replaced or altered later), and that path is the first in the fixed
\* traversal order, so the mapping is a function of grid, trie and cfg.
C10_FirstPathKept == []FirstPathReturned /\ [][RecordedPathKept]_vars

\* A word was reached again along another path and its recorded path was
\* kept: the dfs call that spells it has passed the word test, and the path
\* recorded differs from the path buffer.
C10_Witness ==
    /\ pc = "run"
    /\ fn = "solve_grid_with_paths"
    /\ stack # <<>>
    /\ Top.at = "loop"
    /\ Top.next_word \in DOMAIN paths
    /\ paths[Top.next_word] # path

\* Consistency of the two models of the search: the step-by-step search
\* returns what the whole-call operators compute.
StepsAgreeWithCalls ==
    pc = "done" =>
        ret = IF fn = "solve_grid"
              THEN solve_grid(grid, trie, min_len, allow_diagonal)
              ELSE solve_grid_with_paths(grid, trie, min_len, allow_diagonal)

====
